---- MODULE Spec2Model ----
(***************************************************************************)
(* TITAN VN100 adaptive scanner: the indicator layer (rma, calculate_di),  *)
(* the impulse state machine (calculate_trend_count), the backtest         *)
(* (check_alpha_validity) and the parameter sweep (analyze_symbol,         *)
(* inspect_ticker_stability).                                              *)
(*                                                                         *)
(* Numbers.  The program computes in IEEE doubles; the model computes in   *)
(* exact rationals [n, d] kept in lowest terms with d > 0, so two values   *)
(* are equal exactly when their records are equal.  Prices are positive    *)
(* integers (price ticks).  NaN never becomes a value of the model: the    *)
(* places where pandas produces one (shift(1) at index 0, a division by a  *)
(* zero smoothed True Range) are modelled by what pandas does with it      *)
(* there (a comparison with NaN is False, max skips it, fillna(0)).        *)
(*                                                                         *)
(* Series are functions over 0 .. n-1, the indices of the source.          *)
(***************************************************************************)
EXTENDS Integers, Sequences, FiniteSets, TLC

(***************************************************************************)
(* Exact rational arithmetic.                                              *)
(***************************************************************************)
RECURSIVE GCD(_, _)
GCD(a, b) == IF b = 0 THEN a ELSE GCD(b, a % b)

Abs(x) == IF x < 0 THEN -x ELSE x

Rat(n, d) ==
    LET g == GCD(Abs(n), d)
    IN  [n |-> n \div g, d |-> d \div g]

R(x) == [n |-> x, d |-> 1]

RNeg(x) == [n |-> -x.n, d |-> x.d]

RAdd(x, y) ==
    LET g == GCD(x.d, y.d)
        l == (x.d \div g) * y.d
    IN  Rat(x.n * (l \div x.d) + y.n * (l \div y.d), l)

RSub(x, y) == RAdd(x, RNeg(y))

RMul(x, y) ==
    LET g1 == GCD(Abs(x.n), y.d)
        g2 == GCD(Abs(y.n), x.d)
    IN  Rat((x.n \div g1) * (y.n \div g2), (x.d \div g2) * (y.d \div g1))

\* y # 0
RInv(y) == IF y.n < 0 THEN [n |-> -y.d, d |-> -y.n] ELSE [n |-> y.d, d |-> y.n]

RDiv(x, y) == RMul(x, RInv(y))

\* a/b < c/d for b, d > 0, compared through the continued fractions of the
\* two sides, so that no product of a numerator and a denominator is formed.
RECURSIVE FracLess(_, _, _, _)
FracLess(a, b, c, d) ==
    LET q1 == a \div b
        q2 == c \div d
        r1 == a % b
        r2 == c % d
    IN  IF q1 # q2 THEN q1 < q2
        ELSE IF r2 = 0 THEN FALSE
        ELSE IF r1 = 0 THEN TRUE
        ELSE FracLess(d, r2, b, r1)

RLess(x, y) == FracLess(x.n, x.d, y.n, y.d)

RGreater(x, y) == RLess(y, x)

RAbs(x) == [n |-> Abs(x.n), d |-> x.d]

Max2(a, b) == IF a >= b THEN a ELSE b

\* A local that has not been assigned
Unset == <<>>

\* Python's None
None == [none |-> TRUE]

SeriesLen(s) == Cardinality(DOMAIN s)

\* The function f as an explicit array.  TLC keeps a function constructor
\* [t \in S |-> e] unevaluated until it is applied; a series that a loop
\* builds from its own earlier values is made explicit at every step.
Array(f) == f @@ <<>>

(***************************************************************************)
(* core/titan_math.py: the indicator layer.                                *)
(***************************************************************************)

\* pandas Series.ewm(alpha=1/length, adjust=False).mean():
\*   y[0] = x[0];  y[t] = (1 - alpha) * y[t-1] + alpha * x[t]
\*                      = ((length - 1) * y[t-1] + x[t]) / length
EwmStep(prev, x, length) ==
    Rat((length - 1) * prev.n * x.d + x.n * prev.d, length * prev.d * x.d)

\* y is the output computed so far, over 0 .. t-1.
RECURSIVE EwmMean(_, _, _)
EwmMean(series, length, y) ==
    LET t == SeriesLen(y)
    IN  IF t >= SeriesLen(series) THEN y
        ELSE EwmMean(series, length,
                     y @@ (t :> IF t = 0 THEN series[0]
                                ELSE EwmStep(y[t - 1], series[t], length)))

\* TitanMath.rma(series, length), length >= 1
rma(series, length) == EwmMean(series, length, <<>>)

\* True Range: the row-wise max of the three ranges; at bar 0 prev_close is
\* NaN and max(axis=1) skips the two NaN columns.
TrueRange(df, t) ==
    IF t = 0 THEN df.High[0] - df.Low[0]
    ELSE Max2(df.High[t] - df.Low[t],
              Max2(Abs(df.High[t] - df.Close[t - 1]),
                   Abs(df.Low[t] - df.Close[t - 1])))

\* up_move / down_move are NaN at bar 0, where both np.where conditions are False
PlusDM(df, t) ==
    IF t = 0 THEN 0
    ELSE LET up_move   == df.High[t] - df.High[t - 1]
             down_move == df.Low[t - 1] - df.Low[t]
         IN  IF up_move > down_move /\ up_move > 0 THEN up_move ELSE 0

MinusDM(df, t) ==
    IF t = 0 THEN 0
    ELSE LET up_move   == df.High[t] - df.High[t - 1]
             down_move == df.Low[t - 1] - df.Low[t]
         IN  IF down_move > up_move /\ down_move > 0 THEN down_move ELSE 0

\* float('nan')
NaN == [n |-> 0, d |-> 0]

\* Fault: a zero smoothed True Range is not replaced and the result not
\* filled: 0 / 0.
DIPercentNoFill(smooth, tr_smooth) ==
    IF tr_smooth.n = 0 THEN NaN
    ELSE RMul(RDiv(smooth, tr_smooth), R(100))

\* (smooth / tr_smooth.replace(0, nan)) * 100, then fillna(0)
DIPercent(smooth, tr_smooth) ==
    IF tr_smooth.n = 0 THEN R(0)
    ELSE LET g1 == GCD(smooth.n, tr_smooth.n)
             g2 == GCD(smooth.d, tr_smooth.d)
         IN  Rat(100 * (smooth.n \div g1) * (tr_smooth.d \div g2),
                 (smooth.d \div g2) * (tr_smooth.n \div g1))

\* TitanMath.calculate_di(df, length)
calculate_di(df, length) ==
    LET idx          == DOMAIN df.High
        tr           == [t \in idx |-> R(TrueRange(df, t))]
        plus_dm      == [t \in idx |-> R(PlusDM(df, t))]
        minus_dm     == [t \in idx |-> R(MinusDM(df, t))]
        tr_smooth    == rma(tr, length)
        plus_smooth  == rma(plus_dm, length)
        minus_smooth == rma(minus_dm, length)
    IN  [plus_di  |-> Array([t \in idx |-> DIPercent(plus_smooth[t], tr_smooth[t])]),
         minus_di |-> Array([t \in idx |-> DIPercent(minus_smooth[t], tr_smooth[t])])]

(***************************************************************************)
(* core/titan_math.py: the impulse state machine.                          *)
(***************************************************************************)

\* Fault: the bullish branch forgets to reset negative_count.
TrendCountBodyNoReset(plus_di, minus_di, counts, i) ==
    LET positive_count == counts.positive_count
        negative_count == counts.negative_count
    IN  IF RGreater(plus_di[i], plus_di[i - 1]) /\ RGreater(plus_di[i], minus_di[i])
        THEN [positive_count |-> [positive_count EXCEPT ![i] = positive_count[i - 1] + 1],
              negative_count |-> [negative_count EXCEPT ![i] = negative_count[i - 1]]]
        ELSE IF RGreater(minus_di[i], minus_di[i - 1]) /\ RGreater(minus_di[i], plus_di[i])
        THEN [positive_count |-> [positive_count EXCEPT ![i] = 0],
              negative_count |-> [negative_count EXCEPT ![i] = negative_count[i - 1] + 1]]
        ELSE [positive_count |-> [positive_count EXCEPT ![i] = positive_count[i - 1]],
              negative_count |-> [negative_count EXCEPT ![i] = negative_count[i - 1]]]

\* Fault: dominance tested with >=, so an exact tie of the two indicators
\* counts as an impulse.
TrendCountBodyTies(plus_di, minus_di, counts, i) ==
    LET positive_count == counts.positive_count
        negative_count == counts.negative_count
    IN  IF RGreater(plus_di[i], plus_di[i - 1]) /\ ~RLess(plus_di[i], minus_di[i])
        THEN [positive_count |-> [positive_count EXCEPT ![i] = positive_count[i - 1] + 1],
              negative_count |-> [negative_count EXCEPT ![i] = 0]]
        ELSE IF RGreater(minus_di[i], minus_di[i - 1]) /\ ~RLess(minus_di[i], plus_di[i])
        THEN [positive_count |-> [positive_count EXCEPT ![i] = 0],
              negative_count |-> [negative_count EXCEPT ![i] = negative_count[i - 1] + 1]]
        ELSE [positive_count |-> [positive_count EXCEPT ![i] = positive_count[i - 1]],
              negative_count |-> [negative_count EXCEPT ![i] = negative_count[i - 1]]]

\* One iteration of the stateful loop of calculate_trend_count: the counts
\* with index i written.
TrendCountBody(plus_di, minus_di, counts, i) ==
    LET prev_plus  == plus_di[i - 1]
        prev_minus == minus_di[i - 1]
        curr_plus  == plus_di[i]
        curr_minus == minus_di[i]
        positive_count == counts.positive_count
        negative_count == counts.negative_count
    IN  IF RGreater(curr_plus, prev_plus) /\ RGreater(curr_plus, curr_minus)
        THEN [positive_count |-> [positive_count EXCEPT ![i] = positive_count[i - 1] + 1],
              negative_count |-> [negative_count EXCEPT ![i] = 0]]
        ELSE IF RGreater(curr_minus, prev_minus) /\ RGreater(curr_minus, curr_plus)
        THEN [positive_count |-> [positive_count EXCEPT ![i] = 0],
              negative_count |-> [negative_count EXCEPT ![i] = negative_count[i - 1] + 1]]
        ELSE [positive_count |-> [positive_count EXCEPT ![i] = positive_count[i - 1]],
              negative_count |-> [negative_count EXCEPT ![i] = negative_count[i - 1]]]

\* np.zeros(n) for both counts
ZeroCounts(plus_di) ==
    [positive_count |-> Array([t \in DOMAIN plus_di |-> 0]),
     negative_count |-> Array([t \in DOMAIN plus_di |-> 0])]

\* for i in range(1, n): st = [i, counts] is the loop's state
RECURSIVE TrendCountLoop(_, _, _)
TrendCountLoop(plus_di, minus_di, st) ==
    IF st.i >= SeriesLen(plus_di) THEN st.counts
    ELSE TrendCountLoop(plus_di, minus_di,
           [i      |-> st.i + 1,
            counts |-> TrendCountBody(plus_di, minus_di, st.counts, st.i)])

\* TitanMath.calculate_trend_count(plus_di, minus_di)
calculate_trend_count(plus_di, minus_di) ==
    TrendCountLoop(plus_di, minus_di, [i |-> 1, counts |-> ZeroCounts(plus_di)])

(***************************************************************************)
(* core/titan_math.py: the backtest.                                       *)
(***************************************************************************)

\* if len(df) < 50
MIN_BARS == 50

\* Fault: the guard is off by one bar.
InsufficientBarsOffByOne(d) == SeriesLen(d.Close) < MIN_BARS - 1

InsufficientBars(d) == SeriesLen(d.Close) < MIN_BARS

\* The 'Insufficient data' result of check_alpha_validity
InsufficientData ==
    [is_valid |-> FALSE, alpha |-> R(0), algo_ret |-> R(0), buy_hold |-> R(0),
     total_trades |-> 0, reason |-> "Insufficient data"]

\* entry_signal.iloc[i]: (pos_count == 1) & (pos_count.shift(1) == 0);
\* the shifted series is NaN at index 0, where the comparison is False.
EntrySignal(pos_count, i) ==
    pos_count[i] = 1 /\ i > 0 /\ pos_count[i - 1] = 0

\* exit_signal.iloc[i]: (neg_count == 1) & (neg_count.shift(1) == 0)
ExitSignal(neg_count, i) ==
    neg_count[i] = 1 /\ i > 0 /\ neg_count[i - 1] = 0

\* The locals of the trade simulation before its loop.  entries is a history
\* field: it counts the positions opened and is read by no operation.
TradeInit ==
    [in_position |-> FALSE, entry_price |-> 0, total_return |-> R(1),
     trades |-> 0, entries |-> 0]

\* total_return *= (1 + pnl), pnl = (price - entry_price) / entry_price
Compound(total_return, price, entry_price) ==
    LET pnl == Rat(price - entry_price, entry_price)
    IN  RMul(total_return, RAdd(R(1), pnl))

\* Fault: the exit test reads the entry signal's series (pos_count).
TradeBodyExitOnPos(df, counts, st, i) ==
    LET price == df.Close[i]
    IN  IF ~st.in_position /\ EntrySignal(counts.positive_count, i)
        THEN [st EXCEPT !.in_position = TRUE, !.entry_price = price,
                        !.entries = @ + 1]
        ELSE IF st.in_position /\ ExitSignal(counts.positive_count, i)
        THEN [st EXCEPT !.total_return = Compound(@, price, st.entry_price),
                        !.trades = @ + 1,
                        !.in_position = FALSE]
        ELSE st

\* Fault: the exit test reads the exit signal of the bar before.
TradeBodyExitLagged(df, counts, st, i) ==
    LET price == df.Close[i]
    IN  IF ~st.in_position /\ EntrySignal(counts.positive_count, i)
        THEN [st EXCEPT !.in_position = TRUE, !.entry_price = price,
                        !.entries = @ + 1]
        ELSE IF st.in_position /\ ExitSignal(counts.negative_count, i - 1)
        THEN [st EXCEPT !.total_return = Compound(@, price, st.entry_price),
                        !.trades = @ + 1,
                        !.in_position = FALSE]
        ELSE st

\* One iteration of the trade loop, at bar i.
TradeBody(df, counts, st, i) ==
    LET price == df.Close[i]
    IN  IF ~st.in_position /\ EntrySignal(counts.positive_count, i)
        THEN [st EXCEPT !.in_position = TRUE, !.entry_price = price,
                        !.entries = @ + 1]
        ELSE IF st.in_position /\ ExitSignal(counts.negative_count, i)
        THEN [st EXCEPT !.total_return = Compound(@, price, st.entry_price),
                        !.trades = @ + 1,
                        !.in_position = FALSE]
        ELSE st

\* for i in range(1, len(df)): lp = [i, st] is the loop's state
RECURSIVE TradeLoop(_, _, _)
TradeLoop(df, counts, lp) ==
    IF lp.i >= SeriesLen(df.Close) THEN lp.st
    ELSE TradeLoop(df, counts,
                   [i |-> lp.i + 1, st |-> TradeBody(df, counts, lp.st, lp.i)])

\* Fault: a position open after the last bar is left open.
CloseAtEndMissing(df, st) == st

\* Close any open position at end: the last close is realised and counted;
\* the local in_position itself is not written again.
CloseAtEnd(df, st) ==
    IF st.in_position
    THEN LET price == df.Close[SeriesLen(df.Close) - 1]
         IN  [st EXCEPT !.total_return = Compound(@, price, st.entry_price),
                        !.trades = @ + 1]
    ELSE st

\* Fault: one guardrail is enough (or instead of and).
AlphaStatsEitherGuardrail(df, st) ==
    LET first == df.Close[0]
        last  == df.Close[SeriesLen(df.Close) - 1]
        algo_return_pct == RMul(RSub(st.total_return, R(1)), R(100))
        buy_hold_pct    == RMul(Rat(last - first, first), R(100))
    IN  [is_valid |-> RGreater(algo_return_pct, R(0))
                        \/ RGreater(algo_return_pct, buy_hold_pct),
         alpha |-> RSub(algo_return_pct, buy_hold_pct),
         algo_ret |-> algo_return_pct, buy_hold |-> buy_hold_pct,
         total_trades |-> st.trades]

\* Calculate returns, dual guardrail validation, the returned dictionary.
AlphaStats(df, st) ==
    LET first == df.Close[0]
        last  == df.Close[SeriesLen(df.Close) - 1]
        algo_return_pct == RMul(RSub(st.total_return, R(1)), R(100))
        buy_hold_pct    == RMul(Rat(last - first, first), R(100))
        alpha           == RSub(algo_return_pct, buy_hold_pct)
        guardrail_1     == RGreater(algo_return_pct, R(0))
        guardrail_2     == RGreater(algo_return_pct, buy_hold_pct)
    IN  [is_valid |-> guardrail_1 /\ guardrail_2, alpha |-> alpha,
         algo_ret |-> algo_return_pct, buy_hold |-> buy_hold_pct,
         total_trades |-> st.trades]

\* plus_di, minus_di = calculate_di(df, length)
\* pos_count, neg_count = calculate_trend_count(plus_di, minus_di)
Indicators(df, length) ==
    LET di == calculate_di(df, length)
    IN  [plus_di  |-> di.plus_di,
         minus_di |-> di.minus_di,
         counts   |-> calculate_trend_count(di.plus_di, di.minus_di)]

\* check_alpha_validity after its indicators: the simulation, the forced
\* close, the returned dictionary
Backtest(df, counts) ==
    AlphaStats(df, CloseAtEnd(df, TradeLoop(df, counts, [i |-> 1, st |-> TradeInit])))

\* Fault: only a zero length is refused.
RmaErrorZeroOnly(length) ==
    IF length = 0 THEN "ZeroDivisionError" ELSE "none"

\* The exception TitanMath.rma raises for a length that is not positive:
\* 1.0/length divides by zero for 0, and pandas refuses an alpha outside
\* (0, 1] for a negative length.
RmaError(length) ==
    IF length = 0 THEN "ZeroDivisionError"
    ELSE IF length < 0 THEN "ValueError"
    ELSE "none"

\* TitanMath.check_alpha_validity(df, di_length), di_length >= 1
check_alpha_validity(df, di_length) ==
    IF InsufficientBars(df) THEN InsufficientData
    ELSE Backtest(df, Indicators(df, di_length).counts)

(***************************************************************************)
(* strategies/alpha_scanner.py: the grid search of analyze_symbol and the  *)
(* profile of inspect_ticker_stability.                                    *)
(***************************************************************************)
DI_LENGTH_MIN == 1

DI_LENGTH_MAX == 40

\* best_length = 14  # Default
DEFAULT_LENGTH == 14

SweepRange == DI_LENGTH_MIN .. DI_LENGTH_MAX

\* -float('inf'); every other float of the sweep is a rational with d > 0
NegInf == [n |-> -1, d |-> 0]

\* a > b on floats that may be -inf
FloatGreater(a, b) ==
    IF a.d = 0 THEN FALSE
    ELSE IF b.d = 0 THEN TRUE
    ELSE RGreater(a, b)

\* What the pure functions of TitanMath give on df at one length: the
\* dictionary check_alpha_validity(df, length) returns, and the last values
\* of the series calculate_di and calculate_trend_count return, which
\* analyze_symbol reads after the sweep.  df has at least MIN_BARS bars.
Evaluation(df, length) ==
    LET ind == Indicators(df, length)
        n   == SeriesLen(df.Close)
    IN  [alpha_stats   |-> Backtest(df, ind.counts),
         plus_di_last  |-> ind.plus_di[n - 1],
         minus_di_last |-> ind.minus_di[n - 1],
         current_pos   |-> ind.counts.positive_count[n - 1],
         previous_pos  |-> IF n > 1 THEN ind.counts.positive_count[n - 2] ELSE 0]

\* best_result = None; best_alpha = -inf; best_length = 14
SweepInit == [result |-> None, alpha |-> NegInf, length |-> DEFAULT_LENGTH]

\* Fault: an equal alpha replaces the incumbent (>= instead of >).
SweepBodyLastTieWins(best, length, alpha_stats) ==
    IF ~FloatGreater(best.alpha, alpha_stats.alpha)
    THEN [result |-> alpha_stats, alpha |-> alpha_stats.alpha, length |-> length]
    ELSE best

\* Fault: the comparison is reversed, the sweep keeps the smallest alpha.
SweepBodyKeepsWorst(best, length, alpha_stats) ==
    IF best.result = None \/ FloatGreater(best.alpha, alpha_stats.alpha)
    THEN [result |-> alpha_stats, alpha |-> alpha_stats.alpha, length |-> length]
    ELSE best

\* Fault: every result replaces the incumbent (no comparison).
SweepBodyLastResult(best, length, alpha_stats) ==
    [result |-> alpha_stats, alpha |-> alpha_stats.alpha, length |-> length]

\* The body of the sweep's try block once check_alpha_validity has returned
\* alpha_stats: current_alpha = alpha_stats.get('alpha', -inf) (the key is
\* always there); the incumbent is replaced when current_alpha > best_alpha.
SweepBody(best, length, alpha_stats) ==
    LET current_alpha == alpha_stats.alpha
    IN  IF FloatGreater(current_alpha, best.alpha)
        THEN [result |-> alpha_stats, alpha |-> current_alpha, length |-> length]
        ELSE best

TrendStrength(plus_di_last, minus_di_last) ==
    LET strength_val == RAbs(RSub(plus_di_last, minus_di_last))
    IN  IF RGreater(strength_val, R(20)) THEN "Strong"
        ELSE IF RGreater(strength_val, R(10)) THEN "Mod"
        ELSE "Weak"

\* Fault: the flag stays up while the impulse goes on (count >= 1).
AnalysisDictSignalWhileRising(df, best, ev) ==
    [close_price    |-> df.Close[SeriesLen(df.Close) - 1],
     is_valid       |-> best.result.is_valid,
     alpha          |-> best.result.alpha,
     algo_ret       |-> best.result.algo_ret,
     buy_hold       |-> best.result.buy_hold,
     total_trades   |-> best.result.total_trades,
     is_buy_signal  |-> ev.current_pos >= 1,
     trend_strength |-> TrendStrength(ev.plus_di_last, ev.minus_di_last),
     plus_di        |-> ev.plus_di_last,
     minus_di       |-> ev.minus_di_last,
     optimal_length |-> best.length,
     scan_range     |-> <<DI_LENGTH_MIN, DI_LENGTH_MAX>>]

\* The dictionary analyze_symbol returns for the winning length; ev is the
\* evaluation at best.length.
AnalysisDict(df, best, ev) ==
    [close_price    |-> df.Close[SeriesLen(df.Close) - 1],
     is_valid       |-> best.result.is_valid,
     alpha          |-> best.result.alpha,
     algo_ret       |-> best.result.algo_ret,
     buy_hold       |-> best.result.buy_hold,
     total_trades   |-> best.result.total_trades,
     is_buy_signal  |-> ev.current_pos = 1 /\ ev.previous_pos = 0,
     trend_strength |-> TrendStrength(ev.plus_di_last, ev.minus_di_last),
     plus_di        |-> ev.plus_di_last,
     minus_di       |-> ev.minus_di_last,
     optimal_length |-> best.length,
     scan_range     |-> <<DI_LENGTH_MIN, DI_LENGTH_MAX>>]

\* Fault: with no result the sweep falls back to the default length.
AnalyzeResultDefault(df, best, table) ==
    IF best.result = None
    THEN AnalysisDict(df, [best EXCEPT !.result = table[best.length].alpha_stats],
                      table[best.length])
    ELSE AnalysisDict(df, best, table[best.length])

\* After the sweep: if best_result is None: return None; otherwise the
\* signal at the winning length and the returned dictionary.
AnalyzeResult(df, best, table) ==
    IF best.result = None THEN None
    ELSE AnalysisDict(df, best, table[best.length])

\* results.sort(key=lambda x: x['length']): a stable insertion sort
InsertByLength(sorted, e) ==
    LET p == Cardinality({j \in 1 .. Len(sorted) : sorted[j].length <= e.length})
    IN  SubSeq(sorted, 1, p) \o <<e>> \o SubSeq(sorted, p + 1, Len(sorted))

RECURSIVE SortByLength(_)
SortByLength(results) ==
    IF results = <<>> THEN <<>>
    ELSE InsertByLength(SortByLength(SubSeq(results, 1, Len(results) - 1)),
                        results[Len(results)])

\* One entry of the profile of inspect_ticker_stability
InspectEntry(length, alpha_stats) ==
    [length   |-> length,
     alpha    |-> alpha_stats.alpha,
     is_valid |-> alpha_stats.is_valid,
     algo_ret |-> alpha_stats.algo_ret,
     buy_hold |-> alpha_stats.buy_hold,
     trades   |-> alpha_stats.total_trades]

\* The profile inspect_ticker_stability returns when every evaluation of
\* its sweep returns: one entry per length, appended in sweep order, sorted.
RECURSIVE InspectLoop(_, _)
InspectLoop(table, results) ==
    LET length == DI_LENGTH_MIN + Len(results)
    IN  IF length > DI_LENGTH_MAX THEN results
        ELSE InspectLoop(table,
               Append(results, InspectEntry(length, table[length].alpha_stats)))

InspectProfile(table) == SortByLength(InspectLoop(table, <<>>))

(***************************************************************************)
(* The scans: core/data_feed.py get_vn100_tickers, AlphaScanner.scan_vn100 *)
(* and main.run_scan.                                                      *)
(***************************************************************************)
\* list(dict.fromkeys(all)): the first occurrence of each symbol, in order
RECURSIVE Dedup(_)
Dedup(all) ==
    IF all = <<>> THEN <<>>
    ELSE LET front == Dedup(SubSeq(all, 1, Len(all) - 1))
             last  == all[Len(all)]
         IN  IF \E k \in 1 .. Len(front) : front[k] = last THEN front
             ELSE Append(front, last)

\* all is vn30 + midcap_liquid
get_vn100_tickers(all) == Dedup(all)

\* list.sort: the elements in the order less, equal ones in their old order;
\* less[k][j] is the comparison of the keys of list[k] and list[j]
StableSort(list, less) ==
    LET n == Len(list)
        Rank(j) == Cardinality({k \in 1 .. n :
                      \/ less[k][j]
                      \/ (~less[j][k] /\ k < j)}) + 1
    IN  [r \in 1 .. n |-> list[CHOOSE j \in 1 .. n : Rank(j) = r]]

\* int(b)
int(b) == IF b THEN 1 ELSE 0

\* Fault: a buy signal ranks first whether or not the result is valid.
sort_keyBuyAlone(r) ==
    <<0 - int(r.is_buy_signal), 0 - int(r.is_valid), RNeg(r.alpha)>>

\* main.run_scan's sort_key: (-int(is_buy), -int(is_valid), -alpha)
sort_key(r) ==
    LET is_buy   == r.is_buy_signal /\ r.is_valid
        is_valid == r.is_valid
        alpha    == r.alpha
    IN  <<0 - int(is_buy), 0 - int(is_valid), RNeg(alpha)>>

\* Python's < on the key tuples
KeyLess(a, b) ==
    \/ a[1] < b[1]
    \/ (a[1] = b[1] /\ a[2] < b[2])
    \/ (a[1] = b[1] /\ a[2] = b[2] /\ RLess(a[3], b[3]))

\* results.sort(key=sort_key)
SortRunScan(list) ==
    StableSort(list, [k \in 1 .. Len(list) |-> [j \in 1 .. Len(list) |->
                          KeyLess(sort_key(list[k]), sort_key(list[j]))]])

\* results.sort(key=lambda x: x['alpha'], reverse=True)
SortScanVn100(list) ==
    StableSort(list, [k \in 1 .. Len(list) |-> [j \in 1 .. Len(list) |->
                          RGreater(list[k].alpha, list[j].alpha)]])

(***************************************************************************)
(* State.                                                                  *)
(*   pc          position of the running operation                         *)
(*   df          the price history: [High, Low, Close], one value per bar  *)
(*   di_length   the di_length argument of check_alpha_validity            *)
(*   plus_di, minus_di, counts, i, st                                      *)
(*               locals of calculate_trend_count / check_alpha_validity:   *)
(*               the indicator series, the two impulse counts, the loop    *)
(*               index and the trade simulation's locals                   *)
(*   result      what the operation returned                               *)
(*   evals       for each length of the sweep, Evaluation(df, length):     *)
(*               TitanMath's functions are pure, so this is what every     *)
(*               call on df at that length returns                         *)
(*   length, best_result, best_alpha, best_length                          *)
(*               locals of the grid search of analyze_symbol               *)
(*   outcome     history: how the last evaluation of the sweep ended,      *)
(*               "returned" or "raised"                                    *)
(*   any_raised, any_returned                                              *)
(*               history: whether some evaluation of the sweep raised,     *)
(*               whether some evaluation returned                          *)
(*   series      the series given to rma                                   *)
(*   raw         the ticker lists get_vn100_tickers combines               *)
(*   tickers, pos, results                                                 *)
(*               locals of a scan (scan_vn100, run_scan): the ticker list, *)
(*               how many of its symbols the loop has taken, the list of   *)
(*               results; results is also the list of                      *)
(*               inspect_ticker_stability                                  *)
(*   scanner     which scan runs: "scan_vn100" or "run_scan"               *)
(*   analysed    history: for each call of analyze_symbol by the scan, in  *)
(*               order, the symbol and what the call returned              *)
(***************************************************************************)
VARIABLES pc, df, di_length, plus_di, minus_di, counts, i, st, result,
          evals, length, best_result, best_alpha, best_length,
          outcome, any_raised, any_returned,
          series, raw, tickers, pos, results, scanner, analysed

vars == <<pc, df, di_length, plus_di, minus_di, counts, i, st, result,
          evals, length, best_result, best_alpha, best_length,
          outcome, any_raised, any_returned,
          series, raw, tickers, pos, results, scanner, analysed>>

scanVars == <<raw, tickers, pos, results, scanner, analysed>>

ScanIdle ==
    /\ raw = Unset /\ tickers = Unset /\ pos = 0 /\ results = Unset
    /\ scanner = "none" /\ analysed = Unset

sweepVars == <<evals, length, best_result, best_alpha, best_length,
               outcome, any_raised, any_returned>>

alphaVars == <<di_length, plus_di, minus_di, counts, i, st>>

SweepIdle ==
    /\ evals = Unset /\ length = 0 /\ best_result = None /\ best_alpha = Unset
    /\ best_length = 0 /\ outcome = "none"
    /\ any_raised = FALSE /\ any_returned = FALSE

(***************************************************************************)
(* Bounds of the inputs.                                                   *)
(***************************************************************************)
MaxSeriesLen == 3   \* longest indicator series given to calculate_trend_count
MaxDI        == 2   \* indicator values given to it are 0 .. MaxDI
MaxMove      == 2   \* a bar's close differs from the previous one by at most this
MaxDiLength  == 2   \* check_alpha_validity is called with di_length in 1 .. MaxDiLength
ExtraBars    == 1   \* a history has at most MIN_BARS + ExtraBars bars
MaxFaults    == 1   \* evaluations that raise in one sweep of inspect_ticker_stability
MaxTickers   == 2   \* symbols in the lists get_vn100_tickers combines
MaxBars      == 2   \* bars of a history given to calculate_di directly
MaxClose     == 3   \* closes of such a history are in 2 .. MaxClose
MaxAlpha     == 2   \* a scanned symbol's alpha is in -MaxAlpha .. MaxAlpha

(***************************************************************************)
(* Price histories.  A history of n bars is flat at BasePrice up to its    *)
(* last three bars, whose closes move by moves[1], moves[2], moves[3];     *)
(* every bar has High = Close + 1 and Low = Close - 1, so all prices are   *)
(* positive.  get_stock_history has dropped the rows with a missing price. *)
(***************************************************************************)
Moves == (0 - MaxMove) .. MaxMove

Shapes == Moves \X Moves \X Moves

BasePrice == 3 * MaxMove + 2

CloseAt(n, moves, t) ==
    BasePrice + (IF t >= n - 3 /\ n >= 3 THEN moves[1] ELSE 0)
              + (IF t >= n - 2 /\ n >= 2 THEN moves[2] ELSE 0)
              + (IF t >= n - 1 THEN moves[3] ELSE 0)

DataFrame(n, moves) ==
    [High  |-> Array([t \in 0 .. n - 1 |-> CloseAt(n, moves, t) + 1]),
     Low   |-> Array([t \in 0 .. n - 1 |-> CloseAt(n, moves, t) - 1]),
     Close |-> Array([t \in 0 .. n - 1 |-> CloseAt(n, moves, t)])]

len(d) == SeriesLen(d.Close)

(***************************************************************************)
(* SpecTrend: calculate_trend_count on every pair of indicator series of   *)
(* at most MaxSeriesLen values in 0 .. MaxDI, one loop iteration a step.   *)
(***************************************************************************)
IndicatorSeries(n) == [0 .. n - 1 -> {R(v) : v \in 0 .. MaxDI}]

InitTrend ==
    /\ pc = "trend_call"
    /\ \E n \in 0 .. MaxSeriesLen :
          /\ plus_di \in IndicatorSeries(n)
          /\ minus_di \in IndicatorSeries(n)
    /\ df = Unset /\ di_length = 0 /\ counts = Unset /\ i = 0
    /\ st = Unset /\ result = Unset
    /\ SweepIdle /\ series = Unset /\ ScanIdle

\* n = len(plus_di); both counts np.zeros(n); the loop starts at 1
TrendEnter ==
    /\ pc = "trend_call"
    /\ counts' = ZeroCounts(plus_di)
    /\ i' = 1
    /\ pc' = "trend_loop"
    /\ UNCHANGED <<series, scanVars, df, di_length, plus_di, minus_di, st, result, sweepVars>>

TrendStep ==
    /\ pc = "trend_loop"
    /\ i < SeriesLen(plus_di)
    /\ counts' = TrendCountBody(plus_di, minus_di, counts, i)
    /\ i' = i + 1
    /\ UNCHANGED <<series, scanVars, pc, df, di_length, plus_di, minus_di, st, result, sweepVars>>

TrendReturn ==
    /\ pc = "trend_loop"
    /\ i >= SeriesLen(plus_di)
    /\ result' = counts
    /\ pc' = "done"
    /\ UNCHANGED <<series, scanVars, df, di_length, plus_di, minus_di, counts, i, st, sweepVars>>

NextTrend == TrendEnter \/ TrendStep \/ TrendReturn

SpecTrend == InitTrend /\ [][NextTrend]_vars

(***************************************************************************)
(* SpecIndicators: a call of rma(series, length) or of                     *)
(* calculate_di(df, length); di_length holds the length argument.  A bar   *)
(* given to calculate_di has a close in 2 .. MaxClose, a high that is the  *)
(* close or 1 above and a low that is the close or 1 below.                *)
(***************************************************************************)
Lengths == {-1, 0} \cup (1 .. MaxDiLength)

Bars == {[High |-> c + h, Low |-> c - l, Close |-> c] :
            c \in 2 .. MaxClose, h \in {0, 1}, l \in {0, 1}}

Frame(bars) ==
    [High  |-> Array([t \in 0 .. Len(bars) - 1 |-> bars[t + 1].High]),
     Low   |-> Array([t \in 0 .. Len(bars) - 1 |-> bars[t + 1].Low]),
     Close |-> Array([t \in 0 .. Len(bars) - 1 |-> bars[t + 1].Close])]

Frames == {Frame(bars) : bars \in UNION {[1 .. n -> Bars] : n \in 0 .. MaxBars}}

InitIndicators ==
    /\ \/ /\ pc = "rma_call"
          /\ \E n \in 0 .. MaxSeriesLen : series \in IndicatorSeries(n)
          /\ df = Unset
       \/ /\ pc = "di_call"
          /\ df \in Frames
          /\ series = Unset
    /\ di_length \in Lengths
    /\ plus_di = Unset /\ minus_di = Unset /\ counts = Unset /\ i = 0
    /\ st = Unset /\ result = Unset
    /\ SweepIdle /\ ScanIdle

\* 1.0/length or series.ewm(alpha=...) raises
RmaRaises ==
    /\ pc = "rma_call"
    /\ RmaError(di_length) # "none"
    /\ result' = [raised |-> RmaError(di_length)]
    /\ pc' = "raised"
    /\ UNCHANGED <<df, alphaVars, sweepVars, series, scanVars>>

\* return series.ewm(alpha=1.0/length, adjust=False).mean()
RmaReturn ==
    /\ pc = "rma_call"
    /\ RmaError(di_length) = "none"
    /\ result' = rma(series, di_length)
    /\ pc' = "done"
    /\ UNCHANGED <<df, alphaVars, sweepVars, series, scanVars>>

\* calculate_di: the first call of rma raises
DIRaises ==
    /\ pc = "di_call"
    /\ RmaError(di_length) # "none"
    /\ result' = [raised |-> RmaError(di_length)]
    /\ pc' = "raised"
    /\ UNCHANGED <<df, alphaVars, sweepVars, series, scanVars>>

\* return plus_di.fillna(0), minus_di.fillna(0)
DIReturn ==
    /\ pc = "di_call"
    /\ RmaError(di_length) = "none"
    /\ plus_di' = calculate_di(df, di_length).plus_di
    /\ minus_di' = calculate_di(df, di_length).minus_di
    /\ result' = calculate_di(df, di_length)
    /\ pc' = "done"
    /\ UNCHANGED <<df, di_length, counts, i, st, sweepVars, series, scanVars>>

NextIndicators ==
    \/ RmaRaises
    \/ RmaReturn
    \/ DIRaises
    \/ DIReturn

SpecIndicators == InitIndicators /\ [][NextIndicators]_vars

(***************************************************************************)
(* SpecAlpha: check_alpha_validity(df, di_length), one iteration of the    *)
(* trade loop a step.                                                      *)
(***************************************************************************)
AlphaBars == {0, 1} \cup ((MIN_BARS - 1) .. (MIN_BARS + ExtraBars))

InitAlpha ==
    /\ pc = "alpha_call"
    /\ \E n \in AlphaBars, moves \in Shapes : df = DataFrame(n, moves)
    /\ di_length \in {-1, 0} \cup (1 .. MaxDiLength)
    /\ plus_di = Unset /\ minus_di = Unset /\ counts = Unset /\ i = 0
    /\ st = Unset /\ result = Unset
    /\ SweepIdle /\ series = Unset /\ ScanIdle

\* if len(df) < 50: return the 'Insufficient data' dictionary
AlphaInsufficient ==
    /\ pc = "alpha_call"
    /\ InsufficientBars(df)
    /\ result' = InsufficientData
    /\ pc' = "done"
    /\ UNCHANGED <<series, scanVars, df, di_length, plus_di, minus_di, counts, i, st, sweepVars>>

\* calculate_di calls rma, which raises for a length that is not positive;
\* nothing catches it
AlphaRaises ==
    /\ pc = "alpha_call"
    /\ ~InsufficientBars(df)
    /\ RmaError(di_length) # "none"
    /\ result' = [raised |-> RmaError(di_length)]
    /\ pc' = "raised"
    /\ UNCHANGED <<series, scanVars, df, di_length, plus_di, minus_di, counts, i, st, sweepVars>>

\* Calculate indicators, detect the signals, initialise the simulation
AlphaIndicators ==
    /\ pc = "alpha_call"
    /\ ~InsufficientBars(df)
    /\ RmaError(di_length) = "none"
    /\ LET di == calculate_di(df, di_length)
       IN  /\ plus_di' = di.plus_di
           /\ minus_di' = di.minus_di
           /\ counts' = calculate_trend_count(di.plus_di, di.minus_di)
    /\ st' = TradeInit
    /\ i' = 1
    /\ pc' = "trade_loop"
    /\ UNCHANGED <<series, scanVars, df, di_length, result, sweepVars>>

TradeStep ==
    /\ pc = "trade_loop"
    /\ i < len(df)
    /\ st' = TradeBody(df, counts, st, i)
    /\ i' = i + 1
    /\ UNCHANGED <<series, scanVars, pc, df, di_length, plus_di, minus_di, counts, result, sweepVars>>

TradeEnd ==
    /\ pc = "trade_loop"
    /\ i >= len(df)
    /\ st' = CloseAtEnd(df, st)
    /\ pc' = "returns"
    /\ UNCHANGED <<series, scanVars, df, di_length, plus_di, minus_di, counts, i, result, sweepVars>>

AlphaReturn ==
    /\ pc = "returns"
    /\ result' = AlphaStats(df, st)
    /\ pc' = "done"
    /\ UNCHANGED <<series, scanVars, df, di_length, plus_di, minus_di, counts, i, st, sweepVars>>

NextAlpha ==
    \/ AlphaInsufficient
    \/ AlphaRaises
    \/ AlphaIndicators
    \/ TradeStep
    \/ TradeEnd
    \/ AlphaReturn

SpecAlpha == InitAlpha /\ [][NextAlpha]_vars

(***************************************************************************)
(* SpecSweep: analyze_symbol on the history the data client returned, one  *)
(* evaluation of the grid search a step.  An evaluation either returns     *)
(* check_alpha_validity's dictionary or raises; which, is the              *)
(* environment's choice.                                                   *)
(***************************************************************************)
SweepBars == {0, MIN_BARS - 1, MIN_BARS}

InitSweep ==
    /\ pc = "analyze_call"
    /\ \E n \in SweepBars, moves \in Shapes : df = DataFrame(n, moves)
    /\ di_length = 0 /\ plus_di = Unset /\ minus_di = Unset /\ counts = Unset
    /\ i = 0 /\ st = Unset /\ result = Unset
    /\ SweepIdle /\ series = Unset /\ ScanIdle

\* if df.empty or len(df) < 50: return None
AnalyzeNoData ==
    /\ pc = "analyze_call"
    /\ (len(df) = 0 \/ len(df) < MIN_BARS)
    /\ result' = None
    /\ pc' = "done"
    /\ UNCHANGED <<series, scanVars, df, alphaVars, sweepVars>>

SweepStart ==
    /\ pc = "analyze_call"
    /\ ~(len(df) = 0 \/ len(df) < MIN_BARS)
    /\ evals' = [l \in SweepRange |-> Evaluation(df, l)]
    /\ best_result' = SweepInit.result
    /\ best_alpha' = SweepInit.alpha
    /\ best_length' = SweepInit.length
    /\ length' = DI_LENGTH_MIN
    /\ pc' = "sweep"
    /\ UNCHANGED <<series, scanVars, df, alphaVars, result, outcome, any_raised, any_returned>>

\* check_alpha_validity returned: compare and go on with the next length
SweepEval ==
    /\ pc = "sweep"
    /\ length <= DI_LENGTH_MAX
    /\ LET best == SweepBody([result |-> best_result, alpha |-> best_alpha,
                              length |-> best_length],
                             length, evals[length].alpha_stats)
       IN  /\ best_result' = best.result
           /\ best_alpha' = best.alpha
           /\ best_length' = best.length
    /\ length' = length + 1
    /\ outcome' = "returned"
    /\ any_returned' = TRUE
    /\ UNCHANGED <<series, scanVars, pc, df, alphaVars, result, evals, any_raised>>

\* Fault: an exception ends the sweep (break instead of continue).
SweepRaiseEndsSweep ==
    /\ pc = "sweep"
    /\ length <= DI_LENGTH_MAX
    /\ length' = DI_LENGTH_MAX + 1
    /\ outcome' = "raised"
    /\ any_raised' = TRUE
    /\ UNCHANGED <<series, scanVars, pc, df, alphaVars, result, evals, best_result, best_alpha,
                   best_length, any_returned>>

\* The evaluation raised: except Exception: continue
SweepRaise ==
    /\ pc = "sweep"
    /\ length <= DI_LENGTH_MAX
    /\ length' = length + 1
    /\ outcome' = "raised"
    /\ any_raised' = TRUE
    /\ UNCHANGED <<series, scanVars, pc, df, alphaVars, result, evals, best_result, best_alpha,
                   best_length, any_returned>>

\* The sweep is over: None without a result, the dictionary otherwise
AnalyzeReturn ==
    /\ pc = "sweep"
    /\ length > DI_LENGTH_MAX
    /\ result' = AnalyzeResult(df, [result |-> best_result, alpha |-> best_alpha,
                                    length |-> best_length], evals)
    /\ pc' = "done"
    /\ UNCHANGED <<series, scanVars, df, alphaVars, sweepVars>>

NextSweep ==
    \/ AnalyzeNoData
    \/ SweepStart
    \/ SweepEval
    \/ SweepRaise
    \/ AnalyzeReturn

SpecSweep == InitSweep /\ [][NextSweep]_vars

(***************************************************************************)
(* SpecInspect: inspect_ticker_stability on the history the data client    *)
(* returned, one evaluation of its sweep a step.  At most MaxFaults        *)
(* evaluations raise.  The histories start their move with the largest     *)
(* fall.                                                                   *)
(***************************************************************************)
InspectShapes == {moves \in Shapes : moves[1] = 0 - MaxMove}

InitInspect ==
    /\ pc = "inspect_call"
    /\ \E n \in SweepBars, moves \in InspectShapes : df = DataFrame(n, moves)
    /\ di_length = 0 /\ plus_di = Unset /\ minus_di = Unset /\ counts = Unset
    /\ i = 0 /\ st = Unset /\ result = Unset
    /\ SweepIdle /\ series = Unset /\ ScanIdle

\* if df.empty or len(df) < 50: return []
InspectNoData ==
    /\ pc = "inspect_call"
    /\ (len(df) = 0 \/ len(df) < MIN_BARS)
    /\ result' = <<>>
    /\ pc' = "done"
    /\ UNCHANGED <<df, alphaVars, sweepVars, series, scanVars>>

\* results = []
InspectStart ==
    /\ pc = "inspect_call"
    /\ ~(len(df) = 0 \/ len(df) < MIN_BARS)
    /\ evals' = [l \in SweepRange |-> Evaluation(df, l)]
    /\ results' = <<>>
    /\ length' = DI_LENGTH_MIN
    /\ pc' = "inspect"
    /\ UNCHANGED <<df, alphaVars, result, best_result, best_alpha, best_length,
                   outcome, any_raised, any_returned, series,
                   raw, tickers, pos, scanner, analysed>>

\* Fault: the entry is recorded under the loop's 0-based position.
InspectEvalZeroBased ==
    /\ pc = "inspect"
    /\ length <= DI_LENGTH_MAX
    /\ results' = Append(results, InspectEntry(length - DI_LENGTH_MIN,
                                               evals[length].alpha_stats))
    /\ length' = length + 1
    /\ outcome' = "returned"
    /\ any_returned' = TRUE
    /\ UNCHANGED <<pc, df, alphaVars, result, evals, best_result, best_alpha,
                   best_length, any_raised, series,
                   raw, tickers, pos, scanner, analysed>>

\* check_alpha_validity returned: results.append({...})
InspectEval ==
    /\ pc = "inspect"
    /\ length <= DI_LENGTH_MAX
    /\ results' = Append(results, InspectEntry(length, evals[length].alpha_stats))
    /\ length' = length + 1
    /\ outcome' = "returned"
    /\ any_returned' = TRUE
    /\ UNCHANGED <<pc, df, alphaVars, result, evals, best_result, best_alpha,
                   best_length, any_raised, series,
                   raw, tickers, pos, scanner, analysed>>

\* The evaluation raised: except Exception: continue
InspectRaise ==
    /\ pc = "inspect"
    /\ length <= DI_LENGTH_MAX
    /\ (length - DI_LENGTH_MIN) - Len(results) < MaxFaults
    /\ length' = length + 1
    /\ outcome' = "raised"
    /\ any_raised' = TRUE
    /\ UNCHANGED <<pc, df, alphaVars, result, evals, best_result, best_alpha,
                   best_length, any_returned, series, scanVars>>

\* results.sort(key=lambda x: x['length']); return results
InspectReturn ==
    /\ pc = "inspect"
    /\ length > DI_LENGTH_MAX
    /\ results' = SortByLength(results)
    /\ result' = SortByLength(results)
    /\ pc' = "done"
    /\ UNCHANGED <<df, alphaVars, sweepVars, series,
                   raw, tickers, pos, scanner, analysed>>

NextInspect ==
    \/ InspectNoData
    \/ InspectStart
    \/ InspectEval
    \/ InspectRaise
    \/ InspectReturn

SpecInspect == InitInspect /\ [][NextInspect]_vars

(***************************************************************************)
(* SpecScan: a scan of the universe, either AlphaScanner.scan_vn100 or     *)
(* main.run_scan, one symbol a step.  What analyze_symbol returns for a    *)
(* symbol is the environment's choice: None, or a dictionary, of which     *)
(* the scan reads is_valid, is_buy_signal and alpha; a valid result has a  *)
(* positive alpha.                                                         *)
(***************************************************************************)
Symbols == {"ACB", "FPT", "MWG"}

TickerLists == UNION {[1 .. n -> Symbols] : n \in 0 .. MaxTickers}

Analyses(symbol) ==
    LET all == {[symbol |-> symbol, is_valid |-> v, is_buy_signal |-> b,
                 alpha |-> R(a)] :
                   v \in BOOLEAN, b \in BOOLEAN, a \in (0 - MaxAlpha) .. MaxAlpha}
    IN  {r \in all : r.is_valid => RGreater(r.alpha, R(0))}

InitScan ==
    /\ pc = "scan_call"
    /\ scanner \in {"scan_vn100", "run_scan"}
    /\ raw \in TickerLists
    /\ tickers = Unset /\ pos = 0 /\ results = Unset /\ analysed = Unset
    /\ df = Unset /\ di_length = 0 /\ plus_di = Unset /\ minus_di = Unset
    /\ counts = Unset /\ i = 0 /\ st = Unset /\ result = Unset
    /\ SweepIdle /\ series = Unset

\* scan_vn100: if not tickers: return []
ScanNoTickers ==
    /\ pc = "scan_call"
    /\ scanner = "scan_vn100"
    /\ get_vn100_tickers(raw) = <<>>
    /\ tickers' = get_vn100_tickers(raw)
    /\ result' = <<>>
    /\ pc' = "done"
    /\ UNCHANGED <<df, alphaVars, sweepVars, series, raw, pos, results,
                   scanner, analysed>>

\* tickers = get_vn100_tickers(); results = []
ScanStart ==
    /\ pc = "scan_call"
    /\ ~(scanner = "scan_vn100" /\ get_vn100_tickers(raw) = <<>>)
    /\ tickers' = get_vn100_tickers(raw)
    /\ results' = <<>>
    /\ analysed' = <<>>
    /\ pos' = 0
    /\ pc' = "scan"
    /\ UNCHANGED <<df, alphaVars, sweepVars, series, raw, result, scanner>>

\* analyze_symbol returned a dictionary: results.append(result)
ScanResult ==
    /\ pc = "scan"
    /\ pos < Len(tickers)
    /\ \E r \in Analyses(tickers[pos + 1]) :
          /\ results' = Append(results, r)
          /\ analysed' = Append(analysed, [symbol |-> tickers[pos + 1],
                                          returned |-> r])
    /\ pos' = pos + 1
    /\ UNCHANGED <<pc, df, alphaVars, sweepVars, series, raw, tickers, result,
                   scanner>>

\* Fault: a symbol without a result ends the scan.
ScanNoResultEndsScan ==
    /\ pc = "scan"
    /\ pos < Len(tickers)
    /\ analysed' = Append(analysed, [symbol |-> tickers[pos + 1],
                                    returned |-> None])
    /\ pos' = Len(tickers)
    /\ UNCHANGED <<pc, df, alphaVars, sweepVars, series, raw, tickers, results,
                   result, scanner>>

\* analyze_symbol returned None (no or short history, no result in the
\* sweep, or an exception it caught): nothing is appended
ScanNoResult ==
    /\ pc = "scan"
    /\ pos < Len(tickers)
    /\ analysed' = Append(analysed, [symbol |-> tickers[pos + 1],
                                    returned |-> None])
    /\ pos' = pos + 1
    /\ UNCHANGED <<pc, df, alphaVars, sweepVars, series, raw, tickers, results,
                   result, scanner>>

\* After the loop the list is sorted and handed on (returned by scan_vn100,
\* given to print_results_table by run_scan)
ScanReturn ==
    /\ pc = "scan"
    /\ pos >= Len(tickers)
    /\ results' = IF scanner = "run_scan" THEN SortRunScan(results)
                  ELSE SortScanVn100(results)
    /\ result' = IF scanner = "run_scan" THEN SortRunScan(results)
                 ELSE SortScanVn100(results)
    /\ pc' = "done"
    /\ UNCHANGED <<df, alphaVars, sweepVars, series, raw, tickers, pos,
                   scanner, analysed>>

NextScan ==
    \/ ScanNoTickers
    \/ ScanStart
    \/ ScanResult
    \/ ScanNoResult
    \/ ScanReturn

SpecScan == InitScan /\ [][NextScan]_vars

(***************************************************************************)
(* Properties of the impulse state machine (SpecTrend).                    *)
(***************************************************************************)
MutuallyExclusive(c) ==
    \A t \in DOMAIN c.positive_count :
        /\ c.positive_count[t] > 0 => c.negative_count[t] = 0
        /\ c.negative_count[t] > 0 => c.positive_count[t] = 0

\* C1: at every bar the two impulse counts are mutually exclusive:
\* positiveCount[i] > 0 implies negativeCount[i] = 0 and negativeCount[i] > 0
\* implies positiveCount[i] = 0, in the returned counts and at every point
\* of the loop that builds them.
C1_MutualExclusion ==
    /\ pc = "trend_loop" => MutuallyExclusive(counts)
    /\ pc = "done" => MutuallyExclusive(result)

\* A run of each kind occurred in one series, so a count was reset.
C1_Witness ==
    /\ pc = "done"
    /\ \E t, u \in DOMAIN result.positive_count :
          result.positive_count[t] > 0 /\ result.negative_count[u] > 0

Bullish(t) ==
    RGreater(plus_di[t], plus_di[t - 1]) /\ RGreater(plus_di[t], minus_di[t])

Bearish(t) ==
    RGreater(minus_di[t], minus_di[t - 1]) /\ RGreater(minus_di[t], plus_di[t])

\* C4: both counts are 0 at index 0, and every index t >= 1 the loop has
\* passed took exactly one of three transitions: bullish (plusDI rising and
\* dominant) adds one to positiveCount and zeroes negativeCount; otherwise
\* bearish (minusDI rising and dominant) adds one to negativeCount and zeroes
\* positiveCount; otherwise, exact ties included, both counts keep their
\* previous values.
C4_Transitions ==
    pc \in {"trend_loop", "done"} =>
        /\ SeriesLen(plus_di) > 0 =>
              counts.positive_count[0] = 0 /\ counts.negative_count[0] = 0
        /\ \A t \in 1 .. i - 1 :
              IF Bullish(t)
              THEN /\ counts.positive_count[t] = counts.positive_count[t - 1] + 1
                   /\ counts.negative_count[t] = 0
              ELSE IF Bearish(t)
              THEN /\ counts.negative_count[t] = counts.negative_count[t - 1] + 1
                   /\ counts.positive_count[t] = 0
              ELSE /\ counts.positive_count[t] = counts.positive_count[t - 1]
                   /\ counts.negative_count[t] = counts.negative_count[t - 1]

\* A nonzero count was held through a bar where plusDI rose to an exact tie
\* with minusDI.
C4_Witness ==
    /\ pc = "done"
    /\ \E t \in 1 .. SeriesLen(plus_di) - 1 :
          /\ plus_di[t] = minus_di[t]
          /\ RGreater(plus_di[t], plus_di[t - 1])
          /\ result.positive_count[t] > 0
          /\ result.positive_count[t] = result.positive_count[t - 1]

(***************************************************************************)
(* Properties of the backtest (SpecAlpha).                                 *)
(***************************************************************************)
LastClose == df.Close[len(df) - 1]

\* C2: when the trade loop ends, a position still open is closed at the last
\* close and counted as a trade (otherwise nothing changes); after that the
\* trades counted (one per exit) equal the positions opened, and that number
\* is the total_trades the operation returns.
C2_NoOpenPositionAtEnd ==
    [][ /\ (pc = "trade_loop" /\ pc' = "returns") =>
              /\ IF st.in_position
                 THEN /\ st'.trades = st.trades + 1
                      /\ st'.total_return =
                            RMul(st.total_return, Rat(LastClose, st.entry_price))
                 ELSE st' = st
              /\ st'.trades = st'.entries
        /\ (pc = "returns" /\ pc' = "done") =>
              /\ st' = st
              /\ result'.total_trades = st.entries
      ]_vars

\* The operation returned after an exit inside the loop and a forced close
\* of a second position.
C2_Witness ==
    /\ pc = "done"
    /\ len(df) >= MIN_BARS
    /\ st.in_position
    /\ st.trades >= 2
    /\ result.total_trades = st.trades

\* C3: in one iteration of the trade loop, at bar i, a position is opened
\* iff positiveCount[i] = 1, positiveCount[i-1] = 0 and none is open, and then
\* the entry price is close[i]; a position is closed iff negativeCount[i] = 1,
\* negativeCount[i-1] = 0 and one is open; at most one position is open.
C3_EntryExit ==
    [][ (pc = "trade_loop" /\ pc' = "trade_loop") =>
          LET opened == st'.entries = st.entries + 1
              closed == st'.trades = st.trades + 1
          IN  /\ opened <=> /\ counts.positive_count[i] = 1
                             /\ counts.positive_count[i - 1] = 0
                             /\ ~st.in_position
              /\ opened => st'.in_position /\ st'.entry_price = df.Close[i]
              /\ ~opened => st'.entries = st.entries
              /\ closed <=> /\ counts.negative_count[i] = 1
                             /\ counts.negative_count[i - 1] = 0
                             /\ st.in_position
              /\ closed => ~st'.in_position
              /\ ~closed => st'.trades = st.trades
              /\ st'.in_position <=> (st'.entries = st'.trades + 1)
              /\ ~st'.in_position <=> (st'.entries = st'.trades)
      ]_vars

\* Inside the loop a position was opened, closed, and another one opened.
C3_Witness ==
    /\ pc = "trade_loop"
    /\ st.trades = 1
    /\ st.entries = 2
    /\ st.in_position

\* C5: on a history of at least 50 bars the operation returns
\* alpha = strategy return % - buy-and-hold return %, and is_valid is true
\* exactly when the strategy return is > 0 and > the buy-and-hold return.
C5_DualGuardrail ==
    (pc = "done" /\ len(df) >= MIN_BARS) =>
        LET strategy == RMul(RSub(st.total_return, R(1)), R(100))
            buyhold  == RMul(Rat(LastClose - df.Close[0], df.Close[0]), R(100))
        IN  /\ result.algo_ret = strategy
            /\ result.buy_hold = buyhold
            /\ result.alpha = RSub(strategy, buyhold)
            /\ result.is_valid <=>
                  (RGreater(strategy, R(0)) /\ RGreater(strategy, buyhold))

\* A profitable strategy that does not beat buy-and-hold: not valid.
C5_Witness ==
    /\ pc = "done"
    /\ len(df) >= MIN_BARS
    /\ RGreater(result.algo_ret, R(0))
    /\ ~RGreater(result.algo_ret, result.buy_hold)
    /\ ~result.is_valid

\* alpha of the evaluation at length l
AlphaAt(l) == evals[l].alpha_stats.alpha

\* The sweep of analyze_symbol is running or has finished
SweepRan == evals # Unset

\* A step of the sweep in which the evaluation at `length' returned
ReturnedStep ==
    pc = "sweep" /\ length <= DI_LENGTH_MAX /\ length' # length
        /\ outcome' = "returned"

\* A step of the sweep in which the evaluation at `length' raised
RaisedStep ==
    pc = "sweep" /\ length <= DI_LENGTH_MAX /\ length' # length
        /\ outcome' = "raised"

\* C6: the lengths are visited in ascending order and the incumbent is
\* replaced exactly when the evaluated alpha is strictly greater than the
\* incumbent's; so, when every evaluation so far returned, the incumbent is
\* the lowest of the lengths visited that have the maximal alpha, and the
\* returned optimal_length is the lowest length of maximal alpha in 1..40.
C6_LowestOfTies ==
    /\ [][ReturnedStep =>
            /\ length' = length + 1
            /\ IF FloatGreater(AlphaAt(length), best_alpha)
               THEN /\ best_length' = length
                    /\ best_alpha' = AlphaAt(length)
                    /\ best_result' = evals[length].alpha_stats
               ELSE UNCHANGED <<best_length, best_alpha, best_result>>]_vars
    /\ []((SweepRan /\ any_returned /\ ~any_raised) =>
            /\ best_alpha = AlphaAt(best_length)
            /\ \A l \in DI_LENGTH_MIN .. (length - 1) :
                  IF l < best_length THEN RLess(AlphaAt(l), best_alpha)
                  ELSE ~RLess(best_alpha, AlphaAt(l))
            /\ pc = "done" => result.optimal_length = best_length)

\* The sweep returned a length above the minimum whose maximal alpha a
\* higher length has too.
C6_Witness ==
    /\ pc = "done" /\ SweepRan /\ ~any_raised /\ result # None
    /\ result.optimal_length > DI_LENGTH_MIN
    /\ \E l \in SweepRange :
          l > result.optimal_length /\ AlphaAt(l) = result.alpha

\* C7: when no evaluation of the sweep raised, analyze_symbol returns a
\* dictionary whose alpha is greater than or equal to the alpha of every
\* entry of the profile inspect_ticker_stability computes on the same
\* history, and that profile has an entry for each of the 40 lengths.
C7_AgreesWithProfile ==
    (pc = "done" /\ SweepRan /\ ~any_raised) =>
        LET profile == InspectProfile(evals)
        IN  /\ result # None
            /\ Len(profile) = DI_LENGTH_MAX - DI_LENGTH_MIN + 1
            /\ \A k \in 1 .. Len(profile) : ~RLess(result.alpha, profile[k].alpha)
            /\ \E k \in 1 .. Len(profile) :
                  /\ profile[k].length = result.optimal_length
                  /\ profile[k].alpha = result.alpha

\* The returned alpha is strictly above the alpha of the first length: the
\* maximum is found later in the sweep.
C7_Witness ==
    /\ pc = "done" /\ SweepRan /\ ~any_raised /\ result # None
    /\ RLess(AlphaAt(DI_LENGTH_MIN), result.alpha)
    /\ InspectProfile(evals)[result.optimal_length].alpha = result.alpha

\* C8: a step in which the evaluation raised leaves best_length, best_alpha
\* and best_result as they were and goes on with the next length; the sweep
\* is left only after length 40, so every remaining length is evaluated.
C8_RaiseIsSkipped ==
    /\ [][RaisedStep =>
            /\ UNCHANGED <<best_length, best_alpha, best_result>>
            /\ length' = length + 1
            /\ pc' = "sweep"]_vars
    /\ [][(pc = "sweep" /\ pc' # "sweep") => length = DI_LENGTH_MAX + 1]_vars
    /\ []((pc = "sweep" /\ length > DI_LENGTH_MIN) => outcome # "none")

\* An evaluation raised while the sweep had an incumbent, and lengths remain.
C8_Witness ==
    /\ pc = "sweep" /\ outcome = "raised"
    /\ best_result # None
    /\ length <= DI_LENGTH_MAX

\* C9: when every evaluation of the sweep raised, analyze_symbol returns
\* None to its caller: no dictionary, neither of a best result nor of the
\* default length 14.
C9_NoViableParameter ==
    (pc = "done" /\ SweepRan /\ ~any_returned) => result = None

\* All 40 evaluations raised and the call returned.
C9_Witness ==
    /\ pc = "done" /\ SweepRan
    /\ any_raised /\ ~any_returned
    /\ length = DI_LENGTH_MAX + 1
    /\ result = None

\* C11: on a history of at least 50 bars whose 40 evaluations all return,
\* inspect_ticker_stability returns exactly 40 results, and the result at
\* 0-based position k has length k + 1; whatever evaluations raise, the
\* returned list is strictly ascending by length.
C11_FortyOrdered ==
    (pc = "done" /\ len(df) >= MIN_BARS) =>
        /\ \A k \in 1 .. Len(result) - 1 : result[k].length < result[k + 1].length
        /\ ~any_raised =>
              /\ Len(result) = 40
              /\ \A k \in 0 .. 39 : result[k + 1].length = k + 1

\* The sweep returned 40 entries whose alphas are not all the same.
C11_Witness ==
    /\ pc = "done" /\ len(df) >= MIN_BARS /\ ~any_raised
    /\ Len(result) = 40
    /\ result[1].alpha # result[40].alpha

\* The scan's loop is running or has finished
ScanRan == analysed # Unset \/ pc = "scan"

\* How many entries of list are the value r
Occurrences(list, r) == Cardinality({k \in 1 .. Len(list) : list[k] = r})

\* C12: a symbol for which analyze_symbol returns None adds nothing to the
\* results and the scan goes on with the next symbol; when the scan is done
\* analyze_symbol has been called for every symbol of the ticker list, in
\* list order, each dictionary it returned is in the output exactly once,
\* and the output holds nothing else and nothing for a symbol that failed.
C12_FailuresIsolated ==
    /\ [][(pc = "scan" /\ pos' # pos /\ analysed'[Len(analysed')].returned = None)
            => (results' = results /\ pos' = pos + 1 /\ pc' = "scan")]_vars
    /\ []((pc = "done" /\ tickers # <<>>) =>
            /\ Len(analysed) = Len(tickers)
            /\ \A k \in 1 .. Len(tickers) :
                  /\ analysed[k].symbol = tickers[k]
                  /\ Occurrences(tickers, tickers[k]) = 1
                  /\ IF analysed[k].returned = None
                     THEN \A j \in 1 .. Len(result) : result[j].symbol # tickers[k]
                     ELSE Occurrences(result, analysed[k].returned) = 1
            /\ Len(result) =
                  Cardinality({k \in 1 .. Len(analysed) : analysed[k].returned # None}))

\* The first symbol failed, and the one after it is in the output.
C12_Witness ==
    /\ pc = "done" /\ Len(tickers) = 2
    /\ analysed[1].returned = None
    /\ Len(result) = 1
    /\ result[1].symbol = tickers[2]

\* The partition of a result in the ranking: 0 buy signal and valid, 1 valid,
\* 2 the rest
Partition(r) ==
    IF r.is_buy_signal /\ r.is_valid THEN 0 ELSE IF r.is_valid THEN 1 ELSE 2

\* list is ordered by partition, and by alpha descending inside a partition
ThreeKeyOrdered(list) ==
    \A j, k \in 1 .. Len(list) :
        j < k => \/ Partition(list[j]) < Partition(list[k])
                 \/ /\ Partition(list[j]) = Partition(list[k])
                    /\ ~RLess(list[j].alpha, list[k].alpha)

\* list is ordered by alpha descending
AlphaDescending(list) ==
    \A j, k \in 1 .. Len(list) : j < k => ~RLess(list[j].alpha, list[k].alpha)

\* C13 as stated: the list either scan produces is ordered by the three keys.
C13_AsStated ==
    (pc = "done" /\ ScanRan) => ThreeKeyOrdered(result)

\* C13: the list run_scan hands to presentation is ordered by the three
\* keys (buy signal and valid, then valid, then the rest; alpha descending
\* inside each); the list scan_vn100 returns is ordered by alpha descending
\* alone.  Both lists hold the results appended, each as often as appended.
C13_Ranked ==
    (pc = "done" /\ ScanRan) =>
        /\ scanner = "run_scan" => ThreeKeyOrdered(result)
        /\ scanner = "scan_vn100" => AlphaDescending(result)
        /\ \A k \in 1 .. Len(analysed) :
              analysed[k].returned # None
                  => Occurrences(result, analysed[k].returned) = 1

\* run_scan ranked a valid result without a buy signal before an invalid
\* one that has a buy signal and a higher alpha, and that was analysed first.
C13_Witness ==
    /\ pc = "done" /\ scanner = "run_scan" /\ Len(result) = 2
    /\ Partition(result[1]) = 1 /\ Partition(result[2]) = 2
    /\ result[2].is_buy_signal
    /\ RLess(result[1].alpha, result[2].alpha)
    /\ analysed[1].returned = result[2]

\* C14: rma called with a length that is zero or negative raises (its call
\* never returns a smoothed series), and a call with a positive length
\* returns one value per value of the series.
C14_NonPositiveLength ==
    (df = Unset) =>
        /\ (di_length <= 0 /\ pc # "rma_call") =>
              /\ pc = "raised"
              /\ result = [raised |-> IF di_length = 0 THEN "ZeroDivisionError"
                                      ELSE "ValueError"]
        /\ (di_length >= 1 /\ pc # "rma_call") =>
              /\ pc = "done"
              /\ DOMAIN result = DOMAIN series

\* rma raised for a negative length on a series of values.
C14_Witness ==
    /\ pc = "raised" /\ df = Unset
    /\ di_length < 0
    /\ SeriesLen(series) > 0

\* The smoothed True Range calculate_di divides by
SmoothedTR ==
    rma([t \in DOMAIN df.Close |-> R(TrueRange(df, t))], di_length)

\* C16: for a length >= 1 calculate_di returns plus_di and minus_di with one
\* value for each bar of the history, every value is a number >= 0, and the
\* value is 0 at every bar where the smoothed True Range is 0.
C16_NonNegativeDI ==
    (pc = "done" /\ df # Unset /\ di_length >= 1) =>
        /\ DOMAIN result.plus_di = DOMAIN df.Close
        /\ DOMAIN result.minus_di = DOMAIN df.Close
        /\ \A t \in DOMAIN df.Close :
              /\ result.plus_di[t].d > 0 /\ result.plus_di[t].n >= 0
              /\ result.minus_di[t].d > 0 /\ result.minus_di[t].n >= 0
              /\ SmoothedTR[t] = R(0)
                    => result.plus_di[t] = R(0) /\ result.minus_di[t] = R(0)

\* calculate_di returned for a history whose first bar has no range and
\* whose second bar rises: 0 at the first bar, a positive plus_di after.
C16_Witness ==
    /\ pc = "done" /\ df # Unset /\ di_length >= 1
    /\ len(df) = 2
    /\ SmoothedTR[0] = R(0)
    /\ result.plus_di[0] = R(0)
    /\ RGreater(result.plus_di[1], R(0))

\* C15: the is_buy_signal of the dictionary analyze_symbol returns is true
\* exactly when, at the returned optimal_length, positive_count is 1 at the
\* last bar and 0 at the bar before; optimal_length is the winning length
\* of the sweep.
C15_BuySignal ==
    (pc = "done" /\ SweepRan /\ result # None) =>
        /\ result.optimal_length = best_length
        /\ result.is_buy_signal <=>
              /\ evals[best_length].current_pos = 1
              /\ evals[best_length].previous_pos = 0
        /\ ~any_raised =>
              LET pos_count ==
                      Indicators(df, result.optimal_length).counts.positive_count
              IN  result.is_buy_signal <=>
                      /\ pos_count[len(df) - 1] = 1
                      /\ pos_count[len(df) - 2] = 0

\* A buy signal at a winning length that is not the default, on a history
\* where another length has no impulse start at the last bar.
C15_Witness ==
    /\ pc = "done" /\ SweepRan /\ result # None
    /\ result.is_buy_signal
    /\ result.optimal_length # DEFAULT_LENGTH
    /\ \E l \in SweepRange : evals[l].current_pos # 1

\* The incumbent of the sweep is a valid result
BestIsValid == best_result # None /\ best_result.is_valid

\* C18: in one sweep buy_hold is the same at every length; once a length
\* whose evaluation returned is valid, the incumbent is valid from then on;
\* so, when every evaluation returned, the dictionary analyze_symbol returns
\* has is_valid true exactly when some length in 1..40 is valid.
C18_BestIsValid ==
    /\ []((pc = "done" /\ SweepRan) =>
            \A l \in SweepRange :
                evals[l].alpha_stats.buy_hold
                    = evals[DI_LENGTH_MIN].alpha_stats.buy_hold)
    /\ [][ReturnedStep =>
            ((BestIsValid \/ evals[length].alpha_stats.is_valid) => BestIsValid')]_vars
    /\ [][RaisedStep => (BestIsValid => BestIsValid')]_vars
    /\ []((pc = "done" /\ SweepRan /\ result # None) =>
            /\ result.is_valid <=> BestIsValid
            /\ result.is_valid => \E l \in SweepRange : evals[l].alpha_stats.is_valid
            /\ ~any_raised =>
                  ((\E l \in SweepRange : evals[l].alpha_stats.is_valid)
                      => result.is_valid))

\* The sweep returned a valid result on a history where the last length of
\* the sweep is not valid.
C18_Witness ==
    /\ pc = "done" /\ SweepRan /\ ~any_raised /\ result # None
    /\ result.is_valid
    /\ ~evals[DI_LENGTH_MAX].alpha_stats.is_valid

\* One iteration of the trade loop at bar i: the step from st to st'
TradeIteration == pc = "trade_loop" /\ i < len(df) /\ i' = i + 1

\* Up to bar i - 1 no impulse has happened: both counts are still 0
NoImpulseBefore(bar) ==
    \A j \in 0 .. (bar - 1) :
        counts.positive_count[j] = 0 /\ counts.negative_count[j] = 0

\* C17 as stated: after the iteration at bar i a position is open iff
\* positiveCount[i] > 0; a bullish ignition never meets an open position and
\* a bearish ignition never meets a flat simulation; entries and exits
\* alternate, an entry first.
C17_AsStated ==
    [][ TradeIteration =>
          /\ st'.in_position <=> (counts.positive_count[i] > 0)
          /\ EntrySignal(counts.positive_count, i) => ~st.in_position
          /\ ExitSignal(counts.negative_count, i) => st.in_position
          /\ (st'.entries = st.entries + 1) => (st.entries = st.trades)
          /\ (st'.trades = st.trades + 1) => (st.entries = st.trades + 1)
      ]_vars

\* C17: after the iteration of the trade loop at bar i >= 1 a position is
\* open iff positiveCount[i] > 0; a bullish ignition never meets an open
\* position; a bearish ignition meets a flat simulation only when no impulse
\* has happened before bar i (the first impulse of the series is bearish),
\* where no position has been opened yet and the step changes nothing;
\* entries and exits alternate, an entry first.
C17_IgnoredSignals ==
    [][ TradeIteration =>
          /\ st'.in_position <=> (counts.positive_count[i] > 0)
          /\ EntrySignal(counts.positive_count, i) => ~st.in_position
          /\ (ExitSignal(counts.negative_count, i) /\ ~st.in_position) =>
                /\ NoImpulseBefore(i)
                /\ st.entries = 0
                /\ st' = st
          /\ (st'.entries = st.entries + 1) => (st.entries = st.trades)
          /\ (st'.trades = st.trades + 1) => (st.entries = st.trades + 1)
          /\ st'.entries \in {st'.trades, st'.trades + 1}
      ]_vars

\* The loop is over a history whose first impulse was bearish, met while
\* flat; a position was opened after it and closed by the next bearish
\* ignition.
C17_Witness ==
    /\ pc = "trade_loop"
    /\ i = len(df)
    /\ st.entries = 1 /\ st.trades = 1 /\ ~st.in_position
    /\ \E j \in 1 .. (i - 1) :
          /\ ExitSignal(counts.negative_count, j)
          /\ NoImpulseBefore(j)

\* C10: on a history of fewer than 50 bars the operation, whatever the
\* length it is given, raises nothing and returns the insufficient-data
\* result (is_valid false, alpha 0, total_trades 0), having computed no
\* indicator and simulated no trade.
C10_InsufficientData ==
    (len(df) < MIN_BARS) =>
        /\ pc # "raised"
        /\ pc = "done" =>
              /\ result.is_valid = FALSE
              /\ result.alpha = R(0)
              /\ result.total_trades = 0
              /\ result.reason = "Insufficient data"
        /\ plus_di = Unset /\ minus_di = Unset /\ counts = Unset /\ st = Unset

\* The call returned on a history one bar short of the minimum, for a
\* length that calculate_di would have refused.
C10_Witness ==
    /\ pc = "done"
    /\ len(df) = MIN_BARS - 1
    /\ di_length <= 0
    /\ result.is_valid = FALSE
    /\ result.total_trades = 0

====
